---------------------------- MODULE Spec2Model ----------------------------
(***************************************************************************)
(* A model of the streaming XML query-and-mutation engine of               *)
(* src/src/xml/modifier.rs (XmlModifier).                                  *)
(*                                                                         *)
(* Strings are sequences of one-character strings, so that the raw string  *)
(* operations of the code (find, ends_with, slicing, trim_matches, join)   *)
(* are computed character by character.  The Document content is the       *)
(* sequence of events quick-xml's Reader yields for the content string     *)
(* with trim_text(false): the Writer writes the raw bytes of every event   *)
(* it is handed, so an event passed through unchanged is byte-identical.   *)
(***************************************************************************)
EXTENDS Integers, Sequences, FiniteSets, TLC

VARIABLES content, call, calls, disk, run

vars == <<content, call, calls, disk, run>>

(***************************************************************************)
(* Bounds of the model.                                                    *)
(***************************************************************************)
MaxDocLen == 4

(***************************************************************************)
(* Strings.                                                                *)
(***************************************************************************)
Last(s) == s[Len(s)]

Front(s) == SubSeq(s, 1, Len(s) - 1)

\* str::ends_with
ends_with(s, suffix) ==
  /\ Len(suffix) <= Len(s)
  /\ SubSeq(s, Len(s) - Len(suffix) + 1, Len(s)) = suffix

\* str::contains for a single character
contains(s, c) == \E i \in 1..Len(s) : s[i] = c

\* str::find for a substring: the first (1-based) position, 0 when absent
find(s, sub) ==
  LET hits == {i \in 1..(Len(s) - Len(sub) + 1) : SubSeq(s, i, i + Len(sub) - 1) = sub}
  IN IF hits = {} THEN 0 ELSE CHOOSE i \in hits : \A j \in hits : i <= j

\* [String]::join("/")
RECURSIVE join(_)
join(stack) ==
  IF stack = <<>> THEN <<>>
  ELSE IF Len(stack) = 1 THEN stack[1]
  ELSE join(Front(stack)) \o <<"/">> \o Last(stack)

\* str::trim_matches(c): strips every leading and trailing occurrence of c
RECURSIVE trim_start_matches(_, _)
trim_start_matches(s, c) ==
  IF s # <<>> /\ s[1] = c THEN trim_start_matches(Tail(s), c) ELSE s

RECURSIVE trim_end_matches(_, _)
trim_end_matches(s, c) ==
  IF s # <<>> /\ Last(s) = c THEN trim_end_matches(Front(s), c) ELSE s

trim_matches(s, c) == trim_end_matches(trim_start_matches(s, c), c)

(***************************************************************************)
(* Events of the token stream (quick_xml::events::Event).                  *)
(***************************************************************************)
Attr(k, v) == [key |-> k, value |-> v]

StartEv(n, as) == [type |-> "Start", name |-> n, attrs |-> as, text |-> <<>>]

EndEv(n) == [type |-> "End", name |-> n, attrs |-> <<>>, text |-> <<>>]

EmptyEv(n, as) == [type |-> "Empty", name |-> n, attrs |-> as, text |-> <<>>]

TextEv(t) == [type |-> "Text", name |-> <<>>, attrs |-> <<>>, text |-> t]

\* any other event (comment, declaration, processing instruction, ...)
CommentEv == [type |-> "Comment", name |-> <<>>, attrs |-> <<>>, text |-> <<>>]

(***************************************************************************)
(* Reader::read_event at position i with the reader's stack of open names. *)
(* The reader checks end names: a close tag that does not close the        *)
(* innermost open element is a parse error.  End of input is Eof, also     *)
(* with elements still open.                                               *)
(***************************************************************************)
read_event(toks, i, opened) ==
  IF i > Len(toks) THEN [kind |-> "Eof", opened |-> opened]
  ELSE LET e == toks[i] IN
    CASE e.type = "Start" -> [kind |-> "Ok", event |-> e, opened |-> Append(opened, e.name)]
      [] e.type = "End" ->
           IF opened = <<>> \/ Last(opened) # e.name
           THEN [kind |-> "Err", opened |-> opened]
           ELSE [kind |-> "Ok", event |-> e, opened |-> Front(opened)]
      [] OTHER -> [kind |-> "Ok", event |-> e, opened |-> opened]

(***************************************************************************)
(* Pattern matcher.                                                        *)
(***************************************************************************)
path_matches(current_path, name, pattern) ==
  IF contains(pattern, "/")
  THEN ends_with(current_path, pattern) \/ current_path = pattern
  ELSE ends_with(current_path, pattern) \/ current_path = pattern \/ name = pattern

\* The result is [path, filter, panic]: filter is <<>> (None) or a
\* one-element sequence (Some((name, value))); panic is the slice
\* pattern[bracket_start + 2..bracket_end] with its start past its end.
parse_pattern(pattern) ==
  LET bracket_start == find(pattern, <<"[", "@">>)
      bracket_end == find(pattern, <<"]">>)
      no_filter == [path |-> pattern, filter |-> <<>>, panic |-> FALSE]
  IN IF bracket_start = 0 \/ bracket_end = 0 THEN no_filter
     ELSE IF bracket_start + 2 > bracket_end
     THEN [path |-> <<>>, filter |-> <<>>, panic |-> TRUE]
     ELSE LET path == SubSeq(pattern, 1, bracket_start - 1)
              attr_part == SubSeq(pattern, bracket_start + 2, bracket_end - 1)
              eq_pos == find(attr_part, <<"=">>)
          IN IF eq_pos = 0 THEN no_filter
             ELSE LET attr_name == SubSeq(attr_part, 1, eq_pos - 1)
                      raw == SubSeq(attr_part, eq_pos + 1, Len(attr_part))
                      attr_value == trim_matches(trim_matches(raw, "'"), "\"")
                  IN [path |-> path,
                      filter |-> <<Attr(attr_name, attr_value)>>,
                      panic |-> FALSE]

check_attr_filter(e, filter) ==
  IF filter # <<>>
  THEN \E i \in 1..Len(e.attrs) :
         e.attrs[i].key = filter[1].key /\ e.attrs[i].value = filter[1].value
  ELSE TRUE

(***************************************************************************)
(* Writer: the events written so far.  finish_writer turns the buffer into *)
(* the new content string; read again, adjacent character data is one      *)
(* text event and empty character data is no event.                        *)
(***************************************************************************)
write_event(out, e) == Append(out, e)

RECURSIVE finish_writer(_)
finish_writer(out) ==
  IF out = <<>> THEN <<>>
  ELSE LET e == out[1]
           rest == finish_writer(Tail(out))
       IN IF e.type # "Text" THEN <<e>> \o rest
          ELSE IF e.text = <<>> THEN rest
          ELSE IF rest # <<>> /\ rest[1].type = "Text"
          THEN <<TextEv(e.text \o rest[1].text)>> \o Tail(rest)
          ELSE <<e>> \o rest

(***************************************************************************)
(* State shared by the four mutating passes.  opened is the reader's own   *)
(* stack; aux is the operation's extra state: in_target (update_text),     *)
(* skip_depth (delete_element) or target_depth (insert_element); the two   *)
(* depths are 0 for None, a stack length (>= 1) otherwise.                 *)
(***************************************************************************)
LoopInit(aux0) ==
  [opened |-> <<>>, path_stack |-> <<>>, modified |-> FALSE, aux |-> aux0, out |-> <<>>]

\* Vec::pop: nothing happens on an empty stack
pop(stack) == IF stack = <<>> THEN stack ELSE Front(stack)

\* the guard `matches_path && attr_matches && !modified` of every pass
first_match_all(matches_path, attr_matches, modified) == matches_path /\ attr_matches

first_match(matches_path, attr_matches, modified) ==
  matches_path /\ attr_matches /\ ~modified

\* what a pass hands back: Err when the reader failed, else Ok(modified);
\* out is the writer's buffer when the pass ended
PassResult(status, st) == [status |-> status, modified |-> st.modified, out |-> st.out]

\* the tail of every mutator: the content swap, reached only on Ok
swap_any(old, res) == IF res.modified THEN finish_writer(res.out) ELSE old

swap(old, res) ==
  IF res.status = "Ok" /\ res.modified THEN finish_writer(res.out) ELSE old

\* the value a mutator returns with the content it leaves behind
CallResult(old, res) ==
  [status |-> res.status,
   ret |-> res.status = "Ok" /\ res.modified,
   content |-> swap(old, res),
   out |-> res.out]

Panicked(old) == [status |-> "Panic", ret |-> FALSE, content |-> old, out |-> <<>>]

(***************************************************************************)
(* update_text                                                             *)
(***************************************************************************)
update_text_event(st, e, pat, new_text) ==
  CASE e.type = "Start" ->
         LET path_stack == Append(st.path_stack, e.name)
             current_path == join(path_stack)
             matches_path == path_matches(current_path, e.name, pat.path)
             attr_matches == check_attr_filter(e, pat.filter)
         IN [st EXCEPT !.path_stack = path_stack,
                       !.aux = first_match(matches_path, attr_matches, st.modified),
                       !.out = write_event(@, e)]
    [] e.type = "Text" ->
         IF st.aux /\ ~st.modified
         THEN [st EXCEPT !.out = write_event(@, TextEv(new_text)), !.modified = TRUE]
         ELSE [st EXCEPT !.out = write_event(@, e)]
    [] e.type = "End" ->
         LET st1 == IF st.aux /\ ~st.modified
                    THEN [st EXCEPT !.out = write_event(@, TextEv(new_text)),
                                    !.modified = TRUE]
                    ELSE st
         IN [st1 EXCEPT !.aux = FALSE,
                        !.path_stack = pop(@),
                        !.out = write_event(@, e)]
    [] OTHER -> [st EXCEPT !.out = write_event(@, e)]

RECURSIVE update_text_loop(_, _, _, _, _)
update_text_loop(toks, i, st, pat, new_text) ==
  LET r == read_event(toks, i, st.opened)
  IN IF r.kind = "Eof" THEN PassResult("Ok", st)
     ELSE IF r.kind = "Err" THEN PassResult("Err", st)
     ELSE update_text_loop(toks, i + 1,
            [update_text_event(st, r.event, pat, new_text) EXCEPT !.opened = r.opened],
            pat, new_text)

update_text(old, path_pattern, new_text) ==
  LET pat == parse_pattern(path_pattern)
  IN IF pat.panic THEN Panicked(old)
     ELSE CallResult(old, update_text_loop(old, 1, LoopInit(FALSE), pat, new_text))

(***************************************************************************)
(* set_attribute                                                           *)
(***************************************************************************)
\* a plausible slip: the pair is always appended, an old one kept
build_element_with_attr_append(original, attr_name, attr_value) ==
  [original EXCEPT !.attrs = Append(@, Attr(attr_name, attr_value))]

build_element_with_attr(original, attr_name, attr_value) ==
  LET found_attr == \E i \in 1..Len(original.attrs) : original.attrs[i].key = attr_name
      replaced == [i \in 1..Len(original.attrs) |->
                     IF original.attrs[i].key = attr_name
                     THEN Attr(attr_name, attr_value)
                     ELSE original.attrs[i]]
  IN [original EXCEPT !.attrs = IF found_attr THEN replaced
                                 ELSE Append(replaced, Attr(attr_name, attr_value))]

set_attribute_event(st, e, pat, attr_name, attr_value) ==
  CASE e.type \in {"Start", "Empty"} ->
         LET path_stack == Append(st.path_stack, e.name)
             current_path == join(path_stack)
             matches_path == path_matches(current_path, e.name, pat.path)
             attr_matches == check_attr_filter(e, pat.filter)
             st1 == IF first_match(matches_path, attr_matches, st.modified)
                    THEN [st EXCEPT !.out = write_event(@,
                                       build_element_with_attr(e, attr_name, attr_value)),
                                    !.modified = TRUE]
                    ELSE [st EXCEPT !.out = write_event(@, e)]
         IN [st1 EXCEPT !.path_stack = IF e.type = "Start" THEN path_stack
                                       ELSE pop(path_stack)]
    [] e.type = "End" ->
         [st EXCEPT !.path_stack = pop(@), !.out = write_event(@, e)]
    [] OTHER -> [st EXCEPT !.out = write_event(@, e)]

RECURSIVE set_attribute_loop(_, _, _, _, _, _)
set_attribute_loop(toks, i, st, pat, attr_name, attr_value) ==
  LET r == read_event(toks, i, st.opened)
  IN IF r.kind = "Eof" THEN PassResult("Ok", st)
     ELSE IF r.kind = "Err" THEN PassResult("Err", st)
     ELSE set_attribute_loop(toks, i + 1,
            [set_attribute_event(st, r.event, pat, attr_name, attr_value)
               EXCEPT !.opened = r.opened],
            pat, attr_name, attr_value)

set_attribute(old, path_pattern, attr_name, attr_value) ==
  LET pat == parse_pattern(path_pattern)
  IN IF pat.panic THEN Panicked(old)
     ELSE CallResult(old,
            set_attribute_loop(old, 1, LoopInit(FALSE), pat, attr_name, attr_value))

(***************************************************************************)
(* delete_element                                                          *)
(***************************************************************************)
\* a plausible slip: skip mode ends at the close tag of a child
skip_ends_early(depth, skip_at) == depth = skip_at + 1

\* `depth == skip_at`: the close tag that ends skip mode
skip_ends(depth, skip_at) == depth = skip_at

delete_element_event(st, e, pat) ==
  CASE e.type = "Start" ->
         LET path_stack == Append(st.path_stack, e.name)
             current_path == join(path_stack)
             matches_path == path_matches(current_path, e.name, pat.path)
             attr_matches == check_attr_filter(e, pat.filter)
             st1 == [st EXCEPT !.path_stack = path_stack]
         IN IF st.aux # 0 THEN st1
            ELSE IF first_match(matches_path, attr_matches, st.modified)
            THEN [st1 EXCEPT !.aux = Len(path_stack), !.modified = TRUE]
            ELSE [st1 EXCEPT !.out = write_event(@, e)]
    [] e.type = "End" ->
         LET depth == Len(st.path_stack)
             st1 == [st EXCEPT !.path_stack = pop(@)]
         IN IF st.aux # 0
            THEN IF skip_ends(depth, st.aux) THEN [st1 EXCEPT !.aux = 0] ELSE st1
            ELSE [st1 EXCEPT !.out = write_event(@, e)]
    [] e.type = "Empty" ->
         LET path_stack == Append(st.path_stack, e.name)
             current_path == join(path_stack)
             matches_path == path_matches(current_path, e.name, pat.path)
             attr_matches == check_attr_filter(e, pat.filter)
         IN IF st.aux # 0 THEN st
            ELSE IF first_match(matches_path, attr_matches, st.modified)
            THEN [st EXCEPT !.modified = TRUE]
            ELSE [st EXCEPT !.out = write_event(@, e)]
    [] OTHER -> IF st.aux = 0 THEN [st EXCEPT !.out = write_event(@, e)] ELSE st

RECURSIVE delete_element_loop(_, _, _, _)
delete_element_loop(toks, i, st, pat) ==
  LET r == read_event(toks, i, st.opened)
  IN IF r.kind = "Eof" THEN PassResult("Ok", st)
     ELSE IF r.kind = "Err" THEN PassResult("Err", st)
     ELSE delete_element_loop(toks, i + 1,
            [delete_element_event(st, r.event, pat) EXCEPT !.opened = r.opened], pat)

delete_element(old, path_pattern) ==
  LET pat == parse_pattern(path_pattern)
  IN IF pat.panic THEN Panicked(old)
     ELSE CallResult(old, delete_element_loop(old, 1, LoopInit(0), pat))

(***************************************************************************)
(* insert_element                                                          *)
(***************************************************************************)
\* the indentation write_new_element puts before and after the new element
IndentBefore == <<"\n", " ", " ", " ", " ">>

IndentAfter == <<"\n", " ", " ">>

\* a plausible slip: the new element is always written as an open/close pair
write_new_element_pair(out, element_name, attributes, text) ==
  out \o <<TextEv(IndentBefore), StartEv(element_name, attributes)>>
      \o (IF text # <<>> THEN <<TextEv(text[1])>> ELSE <<>>)
      \o <<EndEv(element_name), TextEv(IndentAfter)>>

\* text is <<>> for None and <<t>> for Some(t)
write_new_element(out, element_name, attributes, text) ==
  LET out1 == write_event(out, TextEv(IndentBefore))
      out2 == IF text # <<>>
              THEN write_event(
                     write_event(
                       write_event(out1, StartEv(element_name, attributes)),
                       TextEv(text[1])),
                     EndEv(element_name))
              ELSE write_event(out1, EmptyEv(element_name, attributes))
  IN write_event(out2, TextEv(IndentAfter))

insert_element_event(st, e, pat, element_name, attributes, text) ==
  CASE e.type = "Start" ->
         LET path_stack == Append(st.path_stack, e.name)
             current_path == join(path_stack)
             matches_path == path_matches(current_path, e.name, pat.path)
             attr_matches == check_attr_filter(e, pat.filter)
         IN [st EXCEPT !.path_stack = path_stack,
                       !.aux = IF first_match(matches_path, attr_matches, st.modified)
                               THEN Len(path_stack) ELSE @,
                       !.out = write_event(@, e)]
    [] e.type = "End" ->
         LET depth == Len(st.path_stack)
             st1 == IF st.aux = depth /\ st.aux # 0 /\ ~st.modified
                    THEN [st EXCEPT !.out = write_new_element(@, element_name,
                                                              attributes, text),
                                    !.modified = TRUE,
                                    !.aux = 0]
                    ELSE st
         IN [st1 EXCEPT !.path_stack = pop(@), !.out = write_event(@, e)]
    [] e.type = "Empty" ->
         LET current_path == join(st.path_stack) \o <<"/">> \o e.name
             matches_path == path_matches(current_path, e.name, pat.path)
             attr_matches == check_attr_filter(e, pat.filter)
         IN IF first_match(matches_path, attr_matches, st.modified)
            THEN [st EXCEPT !.out = write_event(
                                      write_new_element(
                                        write_event(@, StartEv(e.name, <<>>)),
                                        element_name, attributes, text),
                                      EndEv(e.name)),
                            !.modified = TRUE]
            ELSE [st EXCEPT !.out = write_event(@, e)]
    [] OTHER -> [st EXCEPT !.out = write_event(@, e)]

RECURSIVE insert_element_loop(_, _, _, _, _, _, _)
insert_element_loop(toks, i, st, pat, element_name, attributes, text) ==
  LET r == read_event(toks, i, st.opened)
  IN IF r.kind = "Eof" THEN PassResult("Ok", st)
     ELSE IF r.kind = "Err" THEN PassResult("Err", st)
     ELSE insert_element_loop(toks, i + 1,
            [insert_element_event(st, r.event, pat, element_name, attributes, text)
               EXCEPT !.opened = r.opened],
            pat, element_name, attributes, text)

insert_element(old, parent_pattern, element_name, attributes, text) ==
  LET pat == parse_pattern(parent_pattern)
  IN IF pat.panic THEN Panicked(old)
     ELSE CallResult(old,
            insert_element_loop(old, 1, LoopInit(0), pat, element_name, attributes, text))

(***************************************************************************)
(* get_structure (the indexer).  Its reader trims text: character data     *)
(* reaches the Text arm without its leading and trailing whitespace, and   *)
(* not at all when nothing is left; the arm trims once more.  A record is  *)
(* [path, name, attributes, text, depth], text being <<>> for None and     *)
(* <<t>> for Some(t).                                                      *)
(***************************************************************************)
MAX_XML_ELEMENTS == 10

is_whitespace(c) == c \in {" ", "\n", "\t"}

RECURSIVE trim_start(_)
trim_start(s) == IF s # <<>> /\ is_whitespace(s[1]) THEN trim_start(Tail(s)) ELSE s

RECURSIVE trim_end(_)
trim_end(s) == IF s # <<>> /\ is_whitespace(Last(s)) THEN trim_end(Front(s)) ELSE s

\* str::trim
trim(s) == trim_end(trim_start(s))

XmlElement(path, name, attributes, text, depth) ==
  [path |-> path, name |-> name, attributes |-> attributes, text |-> text, depth |-> depth]

\* a plausible slip: depth counts the element itself
push_element_len(elements, path_stack, e) ==
  Append(elements,
         XmlElement(join(path_stack), e.name, e.attrs, <<>>, Len(path_stack)))

\* the record pushed for an open or self-closing tag, path_stack holding its name
push_element(elements, path_stack, e) ==
  Append(elements,
         XmlElement(join(path_stack), e.name, e.attrs, <<>>, Len(path_stack) - 1))

\* a plausible slip: the self-closing arm forgets its pop
empty_no_pop(path_stack) == path_stack

\* the path_stack.pop() that ends the Empty arm
empty_pop(path_stack) == pop(path_stack)

\* `if let Some(last) = elements.last_mut() { last.text = Some(text); }`
attach_text(elements, text) ==
  IF elements = <<>> THEN elements
  ELSE [elements EXCEPT ![Len(elements)].text = <<text>>]

get_structure_event(st, e) ==
  CASE e.type = "Start" ->
         LET path_stack == Append(st.path_stack, e.name)
         IN [st EXCEPT !.path_stack = path_stack,
                       !.elements = push_element(@, path_stack, e)]
    [] e.type = "Text" ->
         LET text == trim(e.text)
         IN IF text # <<>> THEN [st EXCEPT !.elements = attach_text(@, text)] ELSE st
    [] e.type = "End" -> [st EXCEPT !.path_stack = pop(@)]
    [] e.type = "Empty" ->
         LET path_stack == Append(st.path_stack, e.name)
         IN [st EXCEPT !.path_stack = empty_pop(path_stack),
                       !.elements = push_element(@, path_stack, e)]
    [] OTHER -> st

RECURSIVE get_structure_loop(_, _, _)
get_structure_loop(toks, i, st) ==
  LET r == read_event(toks, i, st.opened)
  IN IF r.kind = "Eof" THEN [status |-> "Ok", value |-> st.elements]
     ELSE IF r.kind = "Err" THEN [status |-> "Err", value |-> <<>>]
     ELSE get_structure_loop(toks, i + 1,
            [get_structure_event(st, r.event) EXCEPT !.opened = r.opened])

get_structure(old) ==
  get_structure_loop(old, 1, [opened |-> <<>>, path_stack |-> <<>>, elements |-> <<>>])

(***************************************************************************)
(* query, get_element, get_content.  A result is [status, value]: value is *)
(* the Vec of records (query), <<>> for None or <<record>> for Some        *)
(* (get_element), the content (get_content).                               *)
(***************************************************************************)
\* Iterator::take
take(s, n) == SubSeq(s, 1, IF Len(s) < n THEN Len(s) ELSE n)

\* the filter closure of query
query_filter(e, pat) ==
  IF ~path_matches(e.path, e.name, pat.path) THEN FALSE
  ELSE IF pat.filter # <<>>
  THEN \E i \in 1..Len(e.attributes) :
         /\ e.attributes[i].key = pat.filter[1].key
         /\ e.attributes[i].value = pat.filter[1].value
  ELSE TRUE

query(old, pattern) ==
  LET elements == get_structure(old)
  IN IF elements.status = "Err" THEN elements
     ELSE LET pat == parse_pattern(pattern)
          IN IF pat.panic THEN [status |-> "Panic", value |-> <<>>]
             ELSE LET keep(e) == query_filter(e, pat)
                  IN [status |-> "Ok",
                      value |-> take(SelectSeq(elements.value, keep), MAX_XML_ELEMENTS)]

\* a plausible slip: the lookup matches like query does
get_element_by_suffix(old, path) ==
  LET elements == get_structure(old)
  IN IF elements.status = "Err" THEN elements
     ELSE LET found(e) == path_matches(e.path, e.name, path)
          IN [status |-> "Ok", value |-> take(SelectSeq(elements.value, found), 1)]

get_element(old, path) ==
  LET elements == get_structure(old)
  IN IF elements.status = "Err" THEN elements
     ELSE LET found(e) == e.path = path
          IN [status |-> "Ok", value |-> take(SelectSeq(elements.value, found), 1)]

get_content(old) == [status |-> "Ok", value |-> old]

(***************************************************************************)
(* The inputs: the documents an XmlModifier is constructed on              *)
(* (from_string takes any string, well-formed or not) and the arguments of *)
(* the calls.                                                              *)
(***************************************************************************)
NameA == <<"a">>

NameB == <<"b">>

NameC == <<"c">>

\* a name that ends with another element's name
NameBA == <<"b", "a">>

AttrsKJ == <<Attr(<<"k">>, <<"1">>), Attr(<<"j">>, <<"2">>)>>

AttrsK == <<Attr(<<"k">>, <<"1">>)>>

Tokens ==
  {StartEv(NameA, AttrsKJ), StartEv(NameB, <<>>), EndEv(NameA), EndEv(NameB),
   EmptyEv(NameA, AttrsK), EmptyEv(NameBA, <<>>), TextEv(<<"x">>), CommentEv}

\* a content string never reads as two adjacent text events
RECURSIVE DocsOfLen(_)
DocsOfLen(n) ==
  IF n = 0 THEN {<<>>}
  ELSE {Append(d, t) : d \in DocsOfLen(n - 1), t \in Tokens} \cap
       {d \in Seq(Tokens) : finish_writer(d) = d}

Docs == UNION {DocsOfLen(n) : n \in 0..MaxDocLen}

\* a, b, /a, a/b, a[@j='2'], a[@k='1']
Patterns ==
  {<<"a">>, <<"b">>, <<"/", "a">>, <<"a", "/", "b">>,
   <<"a", "[", "@", "j", "=", "'", "2", "'", "]">>,
   <<"a", "[", "@", "k", "=", "'", "1", "'", "]">>}

NewTexts == {<<"y">>}

SetAttrs == {Attr(<<"k">>, <<"9">>), Attr(<<"m">>, <<"9">>), Attr(<<"k">>, <<"1">>)}

NewElements ==
  {[name |-> NameC,
    attributes |-> <<Attr(<<"p">>, <<"1">>), Attr(<<"q">>, <<"2">>)>>,
    text |-> <<>>],
   [name |-> NameC, attributes |-> <<>>, text |-> <<<<"y">>>>]}

(***************************************************************************)
(* The state machine.  content is XmlModifier.content; call records the    *)
(* last call made on the modifier: its arguments, the content it ran on    *)
(* (pre), how it ended (status: Ok, Err or Panic), the boolean it returned *)
(* (ret) and the events its writer held when the pass ended (out); for a   *)
(* read-only call, the value it returned (result).  calls counts the       *)
(* mutator calls made so far up to two: 0 none, 1 one, 2 two or more.      *)
(* disk is the file system as the program sees it (the XML file and its    *)
(* temporary sibling) and run the progress of the operation that works on  *)
(* it (write_to_file, the modify run); neither is touched by a call on the *)
(* XmlModifier.                                                            *)
(***************************************************************************)
NoFile == [exists |-> FALSE, data |-> <<>>]

File(data) == [exists |-> TRUE, data |-> data]

NoDisk == [target |-> NoFile, tmp |-> NoFile]

NoRun == [pc |-> "none"]

NoCall ==
  [op |-> "none", pattern |-> <<>>, name |-> <<>>, value |-> <<>>,
   attributes |-> <<>>, text |-> <<>>, pre |-> <<>>,
   status |-> "Ok", ret |-> FALSE, out |-> <<>>, result |-> <<>>]

Init ==
  /\ content \in Docs
  /\ call = NoCall
  /\ calls = 0
  /\ disk = NoDisk
  /\ run = NoRun

\* a behaviour is one call on a freshly constructed modifier: every document
\* of the bound is an initial state, so each call is made on every document
Fresh == calls = 0

counted(n) == IF n = 0 THEN 1 ELSE 2

Returned(op, pattern, name, value, attributes, text, r) ==
  /\ content' = r.content
  /\ call' = [op |-> op, pattern |-> pattern, name |-> name, value |-> value,
              attributes |-> attributes, text |-> text, pre |-> content,
              status |-> r.status, ret |-> r.ret, out |-> r.out, result |-> <<>>]
  /\ calls' = counted(calls)
  /\ UNCHANGED <<disk, run>>

UpdateText ==
  /\ Fresh
  /\ \E p \in Patterns, t \in NewTexts :
       Returned("update_text", p, <<>>, <<>>, <<>>, <<t>>, update_text(content, p, t))

SetAttribute ==
  /\ Fresh
  /\ \E p \in Patterns, a \in SetAttrs :
       Returned("set_attribute", p, a.key, a.value, <<>>, <<>>,
                set_attribute(content, p, a.key, a.value))

DeleteElement ==
  /\ Fresh
  /\ \E p \in Patterns :
       Returned("delete_element", p, <<>>, <<>>, <<>>, <<>>, delete_element(content, p))

InsertElement ==
  /\ Fresh
  /\ \E p \in Patterns, n \in NewElements :
       Returned("insert_element", p, n.name, <<>>, n.attributes, n.text,
                insert_element(content, p, n.name, n.attributes, n.text))

Next == UpdateText \/ SetAttribute \/ DeleteElement \/ InsertElement

Spec == Init /\ [][Next]_vars

(***************************************************************************)
(* The same call made again: a caller that repeats set_attribute or        *)
(* delete_element with the arguments of the call before, on the content    *)
(* that call left.                                                         *)
(***************************************************************************)
\* a call that panicked unwound the caller: no call follows it
Alive == call.status # "Panic"

SetAttributeAgain ==
  /\ Alive
  /\ calls >= 1
  /\ call.op = "set_attribute"
  /\ Returned("set_attribute", call.pattern, call.name, call.value, <<>>, <<>>,
              set_attribute(content, call.pattern, call.name, call.value))

DeleteElementAgain ==
  /\ Alive
  /\ calls >= 1
  /\ call.op = "delete_element"
  /\ Returned("delete_element", call.pattern, <<>>, <<>>, <<>>, <<>>,
              delete_element(content, call.pattern))

NextRepeat == SetAttribute \/ DeleteElement \/ SetAttributeAgain \/ DeleteElementAgain

SpecRepeat == Init /\ [][NextRepeat]_vars

(***************************************************************************)
(* The read-only operations, called in any order and any number of times   *)
(* on a document.  The documents read hold two texts that differ, one of   *)
(* them with leading whitespace; the long documents hold more elements     *)
(* than query returns.                                                     *)
(***************************************************************************)
MaxLongLen == 12

ReadTokens == Tokens \cup {TextEv(<<" ", "z">>)}

RECURSIVE ReadDocsOfLen(_)
ReadDocsOfLen(n) ==
  IF n = 0 THEN {<<>>}
  ELSE {Append(d, t) : d \in ReadDocsOfLen(n - 1), t \in ReadTokens} \cap
       {d \in Seq(ReadTokens) : finish_writer(d) = d}

\* n self-closing elements a, the j-th one replaced by ba (none for j = 0)
LongDocs ==
  {[i \in 1..n |-> IF i = j THEN EmptyEv(NameBA, <<>>) ELSE EmptyEv(NameA, AttrsK)] :
     n \in 10..MaxLongLen, j \in 0..MaxLongLen}

ReadDocs == UNION {ReadDocsOfLen(n) : n \in 0..MaxDocLen} \cup LongDocs

\* a, b/a, a/b
ExactPaths == {<<"a">>, <<"b", "/", "a">>, <<"a", "/", "b">>}

\* a plausible slip: the content is taken out of the cell to be read
borrow_take(cell) == <<>>

\* RefCell::borrow: the cell's String after the shared borrow of a read
borrow(cell) == cell

InitRead ==
  /\ content \in ReadDocs
  /\ call = NoCall
  /\ calls = 0
  /\ disk = NoDisk
  /\ run = NoRun

ReadReturned(op, arg, r) ==
  /\ content' = borrow(content)
  /\ call' = [op |-> op, pattern |-> arg, name |-> <<>>, value |-> <<>>,
              attributes |-> <<>>, text |-> <<>>, pre |-> content,
              status |-> r.status, ret |-> FALSE, out |-> <<>>, result |-> r.value]
  /\ calls' = calls
  /\ UNCHANGED <<disk, run>>

GetStructure ==
  /\ Alive
  /\ ReadReturned("get_structure", <<>>, get_structure(content))

Query ==
  /\ Alive
  /\ \E p \in Patterns : ReadReturned("query", p, query(content, p))

GetElement ==
  /\ Alive
  /\ \E p \in ExactPaths : ReadReturned("get_element", p, get_element(content, p))

GetContent ==
  /\ Alive
  /\ ReadReturned("get_content", <<>>, get_content(content))

NextRead == GetStructure \/ Query \/ GetElement \/ GetContent

SpecRead == InitRead /\ [][NextRead]_vars

(***************************************************************************)
(* The document as a tree, read off the token sequence without a stack:    *)
(* what the claims mean by an element, its path, its subtree and the first *)
(* element that satisfies a pattern.                                       *)
(***************************************************************************)
IsTag(e) == e.type \in {"Start", "Empty"}

\* open tags minus close tags among toks[j..k]
Balance(toks, j, k) ==
  Cardinality({m \in j..k : toks[m].type = "Start"})
    - Cardinality({m \in j..k : toks[m].type = "End"})

\* the close tag of the open tag at j, 0 when it is never closed
MatchEnd(toks, j) ==
  LET ends == {k \in (j + 1)..Len(toks) : Balance(toks, j, k) = 0}
  IN IF ends = {} THEN 0 ELSE CHOOSE k \in ends : \A m \in ends : k <= m

\* the last token of the element whose tag is at i
CloseOf(toks, i) == IF toks[i].type = "Empty" THEN i ELSE MatchEnd(toks, i)

IsAncestor(toks, j, i) ==
  /\ j < i
  /\ toks[j].type = "Start"
  /\ (MatchEnd(toks, j) = 0 \/ MatchEnd(toks, j) > i)

RECURSIVE AncestorNames(_, _, _)
AncestorNames(toks, i, j) ==
  IF j >= i THEN <<>>
  ELSE (IF IsAncestor(toks, j, i) THEN <<toks[j].name>> ELSE <<>>)
         \o AncestorNames(toks, i, j + 1)

ElementPath(toks, i) == join(Append(AncestorNames(toks, i, 1), toks[i].name))

WellFormed(toks) ==
  /\ \A j \in 1..Len(toks) : toks[j].type = "Start" =>
       /\ MatchEnd(toks, j) # 0
       /\ toks[MatchEnd(toks, j)].name = toks[j].name
  /\ \A k \in 1..Len(toks) : toks[k].type = "End" =>
       \E j \in 1..(k - 1) : toks[j].type = "Start" /\ MatchEnd(toks, j) = k

\* The element whose tag is at i is one query(pattern) selects: the test of
\* query's filter closure on the element's record.
Selected(toks, i, pattern) ==
  LET pat == parse_pattern(pattern)
  IN /\ IsTag(toks[i])
     /\ path_matches(ElementPath(toks, i), toks[i].name, pat.path)
     /\ \/ pat.filter = <<>>
        \/ \E a \in 1..Len(toks[i].attrs) :
             /\ toks[i].attrs[a].key = pat.filter[1].key
             /\ toks[i].attrs[a].value = pat.filter[1].value

FirstSelected(toks, pattern) ==
  LET sel == {i \in 1..Len(toks) : Selected(toks, i, pattern)}
  IN IF sel = {} THEN 0 ELSE CHOOSE i \in sel : \A m \in sel : i <= m

(***************************************************************************)
(* What the specification means by an element satisfying a pattern         *)
(* (spec 4.2): the path suffix matches on whole path segments, and the     *)
(* attribute predicate, when present, is a pair of the element, compared   *)
(* by exact string equality.  The patterns of the bound follow the         *)
(* pattern grammar, where parse_pattern yields the path suffix and the     *)
(* predicate the grammar describes.                                        *)
(***************************************************************************)
PathSuffixHolds(element_path, element_name, path_suffix) ==
  \/ element_path = path_suffix
  \/ ends_with(element_path, <<"/">> \o path_suffix)
  \/ ~contains(path_suffix, "/") /\ element_name = path_suffix

PredicateHolds(attrs, predicate) ==
  \/ predicate = <<>>
  \/ \E a \in 1..Len(attrs) : attrs[a] = predicate[1]

Satisfies(toks, i, pattern) ==
  LET pat == parse_pattern(pattern)
  IN /\ IsTag(toks[i])
     /\ PathSuffixHolds(ElementPath(toks, i), toks[i].name, pat.path)
     /\ PredicateHolds(toks[i].attrs, pat.filter)

\* the first element in document order that satisfies the pattern, 0 for none
FirstSat(toks, pattern) ==
  LET sat == {i \in 1..Len(toks) : Satisfies(toks, i, pattern)}
  IN IF sat = {} THEN 0 ELSE CHOOSE i \in sat : \A m \in sat : i <= m

HasTextInside(toks, i) ==
  \E t \in (i + 1)..(CloseOf(toks, i) - 1) : toks[t].type = "Text"

\* toks with the tokens i..j replaced by the sequence mid
Splice(toks, i, j, mid) == SubSeq(toks, 1, i - 1) \o mid \o SubSeq(toks, j + 1, Len(toks))

\* the new element as the caller asked for it
NewElement(name, attributes, text) ==
  IF text = <<>> THEN <<EmptyEv(name, attributes)>>
  ELSE <<StartEv(name, attributes), TextEv(text[1]), EndEv(name)>>

\* the new element between the two runs of indentation written around it
InsertedBlock(name, attributes, text) ==
  <<TextEv(IndentBefore)>> \o NewElement(name, attributes, text) \o <<TextEv(IndentAfter)>>

Mutators == {"update_text", "set_attribute", "delete_element", "insert_element"}

(***************************************************************************)
(* C1.  For every document the reader accepts and every pattern that no    *)
(* element of it satisfies, each of update_text, set_attribute,            *)
(* delete_element and insert_element returns false and leaves the content  *)
(* as it was.                                                              *)
(***************************************************************************)
C1_NoMatchNoChange ==
  (/\ call.op \in Mutators
   /\ call.status = "Ok"
   /\ FirstSat(call.pre, call.pattern) = 0)
  => (call.ret = FALSE /\ content = call.pre)

(***************************************************************************)
(* C2.  Whenever a mutator returns an error, the content is exactly what   *)
(* it was before the call, also when the writer already held rewritten     *)
(* events when the reader failed.                                          *)
(***************************************************************************)
C2_ErrorLeavesContent ==
  (call.op \in Mutators /\ call.status = "Err") => content = call.pre

\* an error met after the edit had been written to the writer
C2_Witness ==
  /\ call.op \in Mutators
  /\ call.status = "Err"
  /\ \E i \in 1..Len(call.out) : call.out[i] # call.pre[i]

(***************************************************************************)
(* C3.  For every mutator call that returns true the writer's output is    *)
(* the input with one place rewritten: all tokens before and after that    *)
(* place are the source's, unchanged and in order.  The place is at most   *)
(* one text token (update_text), one tag (set_attribute), the tokens of    *)
(* one element (delete_element), or nothing or one self-closing tag        *)
(* (insert_element); what replaces it is the edit and nothing else.        *)
(***************************************************************************)
\* the source tokens i..j are the one place the call may rewrite into mid
EditOf(c, i, j, mid) ==
  LET pre == c.pre
      n == j - i + 1
  IN CASE c.op = "update_text" ->
            /\ n = 0 \/ (n = 1 /\ pre[i].type = "Text")
            /\ mid = <<TextEv(c.text[1])>>
       [] c.op = "set_attribute" ->
            /\ n = 1 /\ IsTag(pre[i])
            /\ Len(mid) = 1
            /\ mid[1].type = pre[i].type /\ mid[1].name = pre[i].name
       [] c.op = "delete_element" ->
            /\ n >= 1 /\ IsTag(pre[i])
            /\ mid = <<>>
            /\ \/ CloseOf(pre, i) = j
               \/ CloseOf(pre, i) = 0 /\ j = Len(pre)
       [] c.op = "insert_element" ->
            LET block == InsertedBlock(c.name, c.attributes, c.text)
            IN \/ n = 0 /\ mid = block
               \/ /\ n = 1 /\ pre[i].type = "Empty"
                  /\ Len(mid) = Len(block) + 2
                  /\ mid[1].type = "Start" /\ mid[1].name = pre[i].name
                  /\ SubSeq(mid, 2, Len(mid) - 1) = block
                  /\ Last(mid) = EndEv(pre[i].name)
       [] OTHER -> FALSE

C3_SingleEdit ==
  (call.op \in Mutators /\ call.ret) =>
    \E i \in 1..(Len(call.pre) + 1) : \E j \in (i - 1)..Len(call.pre) :
      LET midlen == Len(call.out) - Len(call.pre) + (j - i + 1)
      IN /\ midlen >= 0
         /\ call.out = Splice(call.pre, i, j, SubSeq(call.out, i, i + midlen - 1))
         /\ EditOf(call, i, j, SubSeq(call.out, i, i + midlen - 1))

\* a true call on a document that holds a second element satisfying the
\* pattern after the edited place, with source tokens on both sides of it
C3_Witness ==
  /\ call.op = "set_attribute" /\ call.ret
  /\ \E i, j \in 1..Len(call.pre) :
       /\ 1 < i /\ i < j
       /\ Satisfies(call.pre, i, call.pattern)
       /\ Satisfies(call.pre, j, call.pattern)
       /\ call.out[i] # call.pre[i]

(***************************************************************************)
(* C4.  delete_element on a well-formed document in which some element     *)
(* satisfies the pattern returns true and removes exactly the subtree of   *)
(* the first such element: its open tag, everything nested in it and its   *)
(* close tag, or the single tag when it is self-closing.  Every token      *)
(* before and after the subtree is kept, later matches included.           *)
(***************************************************************************)
C4_DeleteFirstSubtree ==
  (/\ call.op = "delete_element"
   /\ WellFormed(call.pre)
   /\ FirstSat(call.pre, call.pattern) # 0)
  => LET f == FirstSat(call.pre, call.pattern)
     IN /\ call.ret
        /\ call.out = Splice(call.pre, f, CloseOf(call.pre, f), <<>>)
        /\ content = finish_writer(call.out)

\* Relative to the elements query selects (path_matches as the code computes
\* it), the removal is exact: the subtree of the first selected element goes,
\* including nested selected elements, and later selected elements stay.
DeleteRemovesSelectedSubtree ==
  (/\ call.op = "delete_element"
   /\ WellFormed(call.pre)
   /\ FirstSelected(call.pre, call.pattern) # 0)
  => LET f == FirstSelected(call.pre, call.pattern)
     IN /\ call.ret
        /\ call.out = Splice(call.pre, f, CloseOf(call.pre, f), <<>>)

DeleteNestedAndLater ==
  /\ call.op = "delete_element" /\ call.ret /\ WellFormed(call.pre)
  /\ LET f == FirstSelected(call.pre, call.pattern)
         c == CloseOf(call.pre, f)
     IN /\ f # 0
        /\ \E m \in (f + 1)..(c - 1) : Selected(call.pre, m, call.pattern)
        /\ \E m \in (c + 1)..Len(call.pre) : Selected(call.pre, m, call.pattern)

(***************************************************************************)
(* C5.  When update_text returns true on a well-formed document, the       *)
(* element it changed is the first element in document order that          *)
(* satisfies the pattern: either the first text token inside that element  *)
(* is replaced by new_text, or, the element holding no text, new_text is   *)
(* written before its close tag; nothing else changes.                     *)
(***************************************************************************)
\* the first text token inside the element whose tag is at f, 0 for none
FirstTextInside(toks, f) ==
  LET ts == {t \in (f + 1)..(CloseOf(toks, f) - 1) : toks[t].type = "Text"}
  IN IF ts = {} THEN 0 ELSE CHOOSE t \in ts : \A m \in ts : t <= m

C5_UpdatesFirstMatch ==
  (call.op = "update_text" /\ call.ret /\ WellFormed(call.pre))
  => LET f == FirstSat(call.pre, call.pattern)
         t == FirstTextInside(call.pre, f)
         new == <<TextEv(call.text[1])>>
     IN /\ f # 0
        /\ IF t # 0 THEN call.out = Splice(call.pre, t, t, new)
           ELSE /\ call.pre[f].type = "Start"
                /\ call.out = Splice(call.pre, CloseOf(call.pre, f), CloseOf(call.pre, f) - 1, new)

(***************************************************************************)
(* C6.  In update_text on a well-formed document, if the first element     *)
(* satisfying the pattern is an open/close pair with no text token inside  *)
(* it (child elements or not), new_text is written immediately before its  *)
(* close tag and the call returns true.                                    *)
(***************************************************************************)
C6_EmptyTargetGetsText ==
  (/\ call.op = "update_text"
   /\ WellFormed(call.pre)
   /\ FirstSat(call.pre, call.pattern) # 0
   /\ call.pre[FirstSat(call.pre, call.pattern)].type = "Start"
   /\ ~HasTextInside(call.pre, FirstSat(call.pre, call.pattern)))
  => LET c == CloseOf(call.pre, FirstSat(call.pre, call.pattern))
     IN /\ call.ret
        /\ call.out = Splice(call.pre, c, c - 1, <<TextEv(call.text[1])>>)

(***************************************************************************)
(* C7.  set_attribute on a document the reader accepts, in which some      *)
(* element satisfies the pattern, returns true and rewrites only the tag   *)
(* of the first such element: the tag keeps its kind (open or              *)
(* self-closing) and name; if it has an attribute called name, that        *)
(* attribute's value becomes value at the same position and all other      *)
(* attributes keep name, value and order; otherwise (name, value) is       *)
(* appended after the existing attributes.                                 *)
(***************************************************************************)
AttrsAfterSet(old, new, name, value) ==
  IF \E i \in 1..Len(old) : old[i].key = name
  THEN /\ Len(new) = Len(old)
       /\ \A i \in 1..Len(old) :
            /\ new[i].key = old[i].key
            /\ new[i].value = IF old[i].key = name THEN value ELSE old[i].value
  ELSE /\ Len(new) = Len(old) + 1
       /\ \A i \in 1..Len(old) : new[i] = old[i]
       /\ new[Len(new)] = Attr(name, value)

C7_SetAttributeInPlace ==
  (/\ call.op = "set_attribute"
   /\ call.status = "Ok"
   /\ FirstSat(call.pre, call.pattern) # 0)
  => LET f == FirstSat(call.pre, call.pattern)
     IN /\ call.ret
        /\ Len(call.out) = Len(call.pre)
        /\ \A i \in 1..Len(call.pre) : i # f => call.out[i] = call.pre[i]
        /\ call.out[f].type = call.pre[f].type
        /\ call.out[f].name = call.pre[f].name
        /\ AttrsAfterSet(call.pre[f].attrs, call.out[f].attrs, call.name, call.value)

\* Relative to the elements query selects, the rewrite is exact: only the
\* tag of the first selected element changes, as C7 describes.
SetAttributeRewritesSelectedTag ==
  (/\ call.op = "set_attribute"
   /\ call.status = "Ok"
   /\ FirstSelected(call.pre, call.pattern) # 0)
  => LET f == FirstSelected(call.pre, call.pattern)
     IN /\ call.ret
        /\ Len(call.out) = Len(call.pre)
        /\ \A i \in 1..Len(call.pre) : i # f => call.out[i] = call.pre[i]
        /\ call.out[f].type = call.pre[f].type
        /\ call.out[f].name = call.pre[f].name
        /\ AttrsAfterSet(call.pre[f].attrs, call.out[f].attrs, call.name, call.value)

(***************************************************************************)
(* C8.  insert_element on a well-formed document whose first element       *)
(* satisfying parent_pattern is an open/close pair inserts the new child   *)
(* into that element, before its close tag, also when a descendant of it   *)
(* satisfies parent_pattern too.                                           *)
(***************************************************************************)
C8_InsertIntoFirstMatch ==
  (/\ call.op = "insert_element"
   /\ WellFormed(call.pre)
   /\ FirstSat(call.pre, call.pattern) # 0
   /\ call.pre[FirstSat(call.pre, call.pattern)].type = "Start")
  => LET c == CloseOf(call.pre, FirstSat(call.pre, call.pattern))
     IN /\ call.ret
        /\ call.out = Splice(call.pre, c, c - 1,
                             InsertedBlock(call.name, call.attributes, call.text))

(***************************************************************************)
(* C9.  When insert_element returns true, the output is the input plus     *)
(* exactly one new element: it is named element_name, carries the given    *)
(* attributes in the order given, holds optional_text as its only          *)
(* character data when text is present and is self-closing when text is    *)
(* absent.  With the indentation written around it, it stands after all    *)
(* existing content of the parent and right before the parent's close tag: *)
(* a close tag of the input, or the close tag written for an expanded      *)
(* self-closing element.                                                   *)
(***************************************************************************)
C9_OneNewElementLast ==
  (call.op = "insert_element" /\ call.ret)
  => LET block == InsertedBlock(call.name, call.attributes, call.text)
         pre == call.pre
     IN \E i \in 1..Len(pre) :
          \/ /\ pre[i].type = "End"
             /\ \E j \in 1..(i - 1) : pre[j].type = "Start" /\ MatchEnd(pre, j) = i
             /\ call.out = Splice(pre, i, i - 1, block)
          \/ /\ pre[i].type = "Empty"
             /\ \E as \in {pre[i].attrs, <<>>} :
                  call.out = Splice(pre, i, i,
                               <<StartEv(pre[i].name, as)>> \o block
                                 \o <<EndEv(pre[i].name)>>)

\* a self-closing new element with attributes, put after existing content
\* of its parent
C9_Witness ==
  /\ call.op = "insert_element" /\ call.ret
  /\ call.text = <<>> /\ Len(call.attributes) >= 2
  /\ \E i \in 3..Len(call.pre) :
       /\ call.pre[i].type = "End"
       /\ call.pre[i - 1].type # "Start"
       /\ call.out = Splice(call.pre, i, i - 1,
                            InsertedBlock(call.name, call.attributes, call.text))

(***************************************************************************)
(* C10.  When the first element satisfying the pattern of insert_element   *)
(* is self-closing, the call returns true and the output holds, in its     *)
(* place, an open tag with the same name and the same attributes (names,   *)
(* values, order), then the new child, then a close tag of the same name.  *)
(***************************************************************************)
C10_LosslessExpansion ==
  (/\ call.op = "insert_element"
   /\ call.status = "Ok"
   /\ FirstSat(call.pre, call.pattern) # 0
   /\ call.pre[FirstSat(call.pre, call.pattern)].type = "Empty")
  => LET f == FirstSat(call.pre, call.pattern)
         e == call.pre[f]
     IN /\ call.ret
        /\ call.out = Splice(call.pre, f, f,
                        <<StartEv(e.name, e.attrs)>>
                          \o InsertedBlock(call.name, call.attributes, call.text)
                          \o <<EndEv(e.name)>>)

PredicateUndone(pattern, attr_name, attr_value) ==
  LET pat == parse_pattern(pattern)
  IN /\ pat.filter # <<>>
     /\ pat.filter[1].key = attr_name
     /\ pat.filter[1].value # attr_value

NumElements(toks) == Cardinality({i \in 1..Len(toks) : IsTag(toks[i])})

\* the last token of the element at i, the end of input when it is not closed
SubtreeEnd(toks, i) == IF CloseOf(toks, i) = 0 THEN Len(toks) ELSE CloseOf(toks, i)

C12_RepeatedDelete ==
  (call.op = "delete_element" /\ call.status = "Ok")
  => IF call.ret
     THEN LET f == FirstSat(call.pre, call.pattern)
          IN /\ f # 0
             /\ call.out = Splice(call.pre, f, SubtreeEnd(call.pre, f), <<>>)
             /\ NumElements(content) < NumElements(call.pre)
     ELSE content = call.pre

\* Relative to the elements query selects, repeated deletion is exact: a true
\* call removes the first selected element, a false call finds none selected.
RepeatedDeleteOfSelected ==
  (call.op = "delete_element" /\ call.status = "Ok")
  => LET f == FirstSelected(call.pre, call.pattern)
     IN IF call.ret
        THEN /\ f # 0
             /\ call.out = Splice(call.pre, f, SubtreeEnd(call.pre, f), <<>>)
             /\ NumElements(content) < NumElements(call.pre)
        ELSE f = 0 /\ content = call.pre

\* a second true call in a row
RepeatedDeleteTwice ==
  /\ call.op = "delete_element" /\ calls = 2 /\ call.ret
  /\ FirstSat(call.pre, call.pattern) # 0

(***************************************************************************)
(* The records of a document, read off its tokens: the record of the tag   *)
(* at token i is the one get_structure returned at the tag's rank.         *)
(***************************************************************************)
TagsOf(toks) == {i \in 1..Len(toks) : IsTag(toks[i])}

RecordIndex(toks, i) == Cardinality({m \in 1..i : IsTag(toks[m])})

\* the records get_structure returns for the content a read-only call ran on
Records == get_structure(call.pre).value

(***************************************************************************)
(* C13.  query(pattern) returns, in document order, the first min(10, k)   *)
(* of the k records of get_structure() whose path satisfies the pattern's  *)
(* path suffix and whose attribute list holds a pair equal to the          *)
(* pattern's predicate when there is one; with k = 0 it returns an empty   *)
(* list and not an error.                                                  *)
(***************************************************************************)
C13_QueryFirstTenMatches ==
  (call.op = "query" /\ get_structure(call.pre).status = "Ok")
  => LET pat == parse_pattern(call.pattern)
         matches(e) == /\ PathSuffixHolds(e.path, e.name, pat.path)
                       /\ PredicateHolds(e.attributes, pat.filter)
         matched == SelectSeq(Records, matches)
         k == Len(matched)
     IN /\ call.status = "Ok"
        /\ call.result = SubSeq(matched, 1, IF k < 10 THEN k ELSE 10)

\* Relative to the elements the program's matcher selects, query returns the
\* records of the first ten selected tags, in document order.
QueryReturnsSelected ==
  (call.op = "query" /\ get_structure(call.pre).status = "Ok")
  => LET sel == {i \in TagsOf(call.pre) : Selected(call.pre, i, call.pattern)}
         n == Cardinality(sel)
     IN /\ call.status = "Ok"
        /\ Len(call.result) = (IF n < 10 THEN n ELSE 10)
        /\ \A r \in 1..Len(call.result) :
             \E i \in sel :
               /\ Cardinality({m \in sel : m <= i}) = r
               /\ call.result[r] = Records[RecordIndex(call.pre, i)]

\* more than ten elements are selected
QueryCapped ==
  /\ call.op = "query" /\ call.status = "Ok"
  /\ Cardinality({i \in TagsOf(call.pre) : Selected(call.pre, i, call.pattern)}) > 10
  /\ \E i \in 1..10 : call.pre[i].name = NameBA

(***************************************************************************)
(* C14.  get_element(exact_path) returns the first record in document      *)
(* order whose full path equals exact_path and none when no record has     *)
(* exactly that path; it never matches by suffix or by bare tag name.      *)
(***************************************************************************)
C14_GetElementExactPath ==
  (call.op = "get_element" /\ call.status = "Ok")
  => LET hits == {i \in TagsOf(call.pre) : ElementPath(call.pre, i) = call.pattern}
     IN IF hits = {} THEN call.result = <<>>
        ELSE LET first == CHOOSE i \in hits : \A m \in hits : i <= m
             IN call.result = <<Records[RecordIndex(call.pre, first)]>>

\* none is returned for a bare tag name although an element of that name is
\* nested in another (the element at b/a, asked for as a)
C14_Witness ==
  /\ call.op = "get_element" /\ call.status = "Ok"
  /\ call.result = <<>>
  /\ \E i \in TagsOf(call.pre) :
       /\ call.pre[i].name = call.pattern
       /\ ends_with(ElementPath(call.pre, i), <<"/">> \o call.pattern)

(***************************************************************************)
(* C15.  get_structure, query, get_element and get_content never change    *)
(* the Document: every step of a sequence of these calls, successful or    *)
(* failing, leaves the content as it was, and get_content returns it.      *)
(***************************************************************************)
ReadOps == {"get_structure", "query", "get_element", "get_content"}

C15_ReadsLeaveContent ==
  [][/\ call'.op \in ReadOps
     /\ content' = content
     /\ call'.op = "get_content" => call'.result = content]_vars

\* a read-only call that failed on a document that is not empty
C15_Witness ==
  /\ call.op \in ReadOps \ {"get_content"}
  /\ call.status = "Err"
  /\ content # <<>>

(***************************************************************************)
(* C16.  get_structure returns one record per open or self-closing tag,    *)
(* in document order; path is the slash-joined names of the elements open  *)
(* at the tag (ancestors, then the element), name is the last path         *)
(* segment, depth is the number of ancestor segments (0 for a root         *)
(* element); a self-closing element gets the path and depth it would get   *)
(* as an open/close pair without children and does not change the depth   *)
(* of the records after it.                                                *)
(***************************************************************************)
\* the document with every self-closing tag written as an open/close pair
RECURSIVE Expand(_)
Expand(toks) ==
  IF toks = <<>> THEN <<>>
  ELSE (IF toks[1].type = "Empty"
        THEN <<StartEv(toks[1].name, toks[1].attrs), EndEv(toks[1].name)>>
        ELSE <<toks[1]>>) \o Expand(Tail(toks))

LastSegment(path, name) ==
  /\ ends_with(path, name)
  /\ ~contains(name, "/")
  /\ path = name \/ path[Len(path) - Len(name)] = "/"

C16_StructureRecords ==
  (call.op = "get_structure" /\ call.status = "Ok")
  => LET as_pairs == get_structure(Expand(call.pre)).value
     IN /\ Len(call.result) = Cardinality(TagsOf(call.pre))
        /\ Len(as_pairs) = Len(call.result)
        /\ \A i \in TagsOf(call.pre) :
             LET rec == call.result[RecordIndex(call.pre, i)]
                 ancestors == AncestorNames(call.pre, i, 1)
             IN /\ rec.path = join(Append(ancestors, call.pre[i].name))
                /\ rec.name = call.pre[i].name
                /\ LastSegment(rec.path, rec.name)
                /\ rec.depth = Len(ancestors)
                /\ rec.path = as_pairs[RecordIndex(call.pre, i)].path
                /\ rec.depth = as_pairs[RecordIndex(call.pre, i)].depth

\* a nested self-closing element with a record after it
C16_Witness ==
  /\ call.op = "get_structure" /\ call.status = "Ok"
  /\ \E i, j \in TagsOf(call.pre) :
       /\ i < j
       /\ call.pre[i].type = "Empty"
       /\ call.result[RecordIndex(call.pre, i)].depth >= 1
       /\ call.result[RecordIndex(call.pre, j)].depth
            = call.result[RecordIndex(call.pre, i)].depth

(***************************************************************************)
(* C17.  In get_structure a non-whitespace character-data token is         *)
(* attached as text to the most recently appended record only if that      *)
(* record has no text yet: of several non-whitespace text tokens that      *)
(* follow the same record, the record keeps the first.                     *)
(***************************************************************************)
\* the non-whitespace text tokens between the tag at i and the next tag
TextsAfter(toks, i) ==
  {t \in (i + 1)..Len(toks) :
     /\ toks[t].type = "Text"
     /\ trim(toks[t].text) # <<>>
     /\ \A m \in (i + 1)..t : ~IsTag(toks[m])}

C17_FirstTextWins ==
  (call.op = "get_structure" /\ call.status = "Ok")
  => \A i \in TagsOf(call.pre) :
       LET rec == call.result[RecordIndex(call.pre, i)]
           texts == TextsAfter(call.pre, i)
       IN IF texts = {} THEN rec.text = <<>>
          ELSE LET first == CHOOSE t \in texts : \A m \in texts : t <= m
               IN rec.text = <<trim(call.pre[first].text)>>

(***************************************************************************)
(* C18.  For every record of get_structure, text (when present) is         *)
(* character data found directly inside that element, never character data *)
(* of a nested child and never character data after the element's own      *)
(* close tag; the record of a self-closing or empty element has no text.   *)
(***************************************************************************)
\* the token at t stands directly inside the element whose open tag is at i
DirectlyInside(toks, i, t) ==
  /\ IsAncestor(toks, i, t)
  /\ \A j \in (i + 1)..(t - 1) : ~IsAncestor(toks, j, t)

C18_TextIsOwnText ==
  (call.op = "get_structure" /\ call.status = "Ok")
  => \A i \in TagsOf(call.pre) :
       LET rec == call.result[RecordIndex(call.pre, i)]
       IN /\ rec.text # <<>> =>
               \E t \in (i + 1)..Len(call.pre) :
                 /\ call.pre[t].type = "Text"
                 /\ DirectlyInside(call.pre, i, t)
                 /\ rec.text = <<trim(call.pre[t].text)>>
          /\ call.pre[i].type = "Empty" => rec.text = <<>>
          /\ MatchEnd(call.pre, i) = i + 1 => rec.text = <<>>

(***************************************************************************)
(* C19.  For any two records A and B of one get_structure traversal, if B  *)
(* comes after A in document order and B.depth = A.depth + 1, then A is an *)
(* ancestor of B and B.path starts with A.path followed by "/".            *)
(***************************************************************************)
starts_with(s, prefix) ==
  /\ Len(prefix) <= Len(s)
  /\ SubSeq(s, 1, Len(prefix)) = prefix

\* what C19 concludes of the records of the tags at i and j
AncestorByPath(toks, result, i, j) ==
  /\ IsAncestor(toks, i, j)
  /\ starts_with(result[RecordIndex(toks, j)].path,
                 result[RecordIndex(toks, i)].path \o <<"/">>)

C19_DeeperByOneIsDescendant ==
  (call.op = "get_structure" /\ call.status = "Ok")
  => \A i, j \in TagsOf(call.pre) :
       (/\ i < j
        /\ call.result[RecordIndex(call.pre, j)].depth
             = call.result[RecordIndex(call.pre, i)].depth + 1)
       => AncestorByPath(call.pre, call.result, i, j)

\* C19 as amended: A is the last record before B whose depth is one less
\* than B's.
C19_NearestShallowerIsParent ==
  (call.op = "get_structure" /\ call.status = "Ok")
  => \A i, j \in TagsOf(call.pre) :
       (/\ i < j
        /\ call.result[RecordIndex(call.pre, j)].depth
             = call.result[RecordIndex(call.pre, i)].depth + 1
        /\ \A m \in TagsOf(call.pre) :
             (i < m /\ m < j) =>
               call.result[RecordIndex(call.pre, m)].depth
                 # call.result[RecordIndex(call.pre, i)].depth)
       => AncestorByPath(call.pre, call.result, i, j)

\* A, a record between A and B, then B one deeper than A
C19_Witness ==
  /\ call.op = "get_structure" /\ call.status = "Ok"
  /\ \E i, m, j \in TagsOf(call.pre) :
       /\ i < m /\ m < j
       /\ call.result[RecordIndex(call.pre, j)].depth
            = call.result[RecordIndex(call.pre, i)].depth + 1
       /\ call.result[RecordIndex(call.pre, m)].depth
            = call.result[RecordIndex(call.pre, j)].depth
       /\ AncestorByPath(call.pre, call.result, i, j)

(***************************************************************************)
(* C20.  path_matches(element_path, element_name, path_suffix) is true     *)
(* exactly when element_path equals path_suffix, or element_path ends with *)
(* "/" followed by path_suffix, or path_suffix holds no "/" and equals     *)
(* element_name: it matches on whole path segments only.  Seen through     *)
(* query with a pattern that has no predicate, on a document of at most    *)
(* ten elements: a record is returned exactly when path_matches is true of *)
(* it.                                                                     *)
(***************************************************************************)
C20_PathMatchesWholeSegments ==
  (/\ call.op = "query"
   /\ call.status = "Ok"
   /\ parse_pattern(call.pattern).filter = <<>>
   /\ Len(Records) <= 10)
  => \A r \in 1..Len(Records) :
       (\E m \in 1..Len(call.result) : call.result[m] = Records[r])
         <=> PathSuffixHolds(Records[r].path, Records[r].name, call.pattern)

\* what the code computes instead: a raw suffix test on the path string
PathMatchesRawSuffix ==
  (/\ call.op = "query"
   /\ call.status = "Ok"
   /\ parse_pattern(call.pattern).filter = <<>>
   /\ Len(Records) <= 10)
  => \A r \in 1..Len(Records) :
       (\E m \in 1..Len(call.result) : call.result[m] = Records[r])
         <=> ends_with(Records[r].path, call.pattern)

(***************************************************************************)
(* Pattern strings.  parse_pattern is applied to every string over the     *)
(* characters that steer it, up to MaxPatLen of them, and to patterns with *)
(* a predicate whose value is written bare, quoted, or quoted twice; the   *)
(* same strings are handed to query and to delete_element, the callers     *)
(* that parse them.                                                        *)
(***************************************************************************)
MaxPatLen == 4

PatChars == {"a", "[", "@", "]", "=", "'"}

FreePatterns == UNION {[1..n -> PatChars] : n \in 0..MaxPatLen}

PredicateValues ==
  {<<"1">>,
   <<"'", "1", "'">>,
   <<"\"", "1", "\"">>,
   <<"'", "'", "1", "'", "'">>,
   <<"\"", "\"", "1", "\"", "\"">>,
   <<"'", "\"", "1", "\"", "'">>,
   <<"\"", "'", "1", "'", "\"">>}

PredicatePatterns ==
  {p \o <<"[", "@", "k", "=">> \o v \o <<"]">> \o t :
     p \in {<<"a">>, <<"b", "/", "a">>}, v \in PredicateValues, t \in {<<>>, <<"b">>}}

PatternStrings ==
  FreePatterns \cup PredicatePatterns
    \cup {<<"a", "[", "@", "k", "]">>, <<"a", "[", "@", "k", "=", "1">>}

ParseDocs == {<<EmptyEv(NameA, AttrsK)>>, <<StartEv(NameA, AttrsKJ), EndEv(NameA)>>}

InitParse ==
  /\ content \in ParseDocs
  /\ call = NoCall
  /\ calls = 0
  /\ disk = NoDisk
  /\ run = NoRun

\* one call per run: each string meets each caller on each document once
Unused == call.op = "none"

ParsePattern ==
  /\ Unused
  /\ \E s \in PatternStrings :
       LET pat == parse_pattern(s)
       IN call' = [NoCall EXCEPT !.op = "parse_pattern",
                                 !.pattern = s,
                                 !.pre = content,
                                 !.status = IF pat.panic THEN "Panic" ELSE "Ok",
                                 !.result = [path |-> pat.path, filter |-> pat.filter]]
  /\ UNCHANGED <<content, calls, disk, run>>

QueryPattern ==
  /\ Unused
  /\ \E s \in PatternStrings : ReadReturned("query", s, query(content, s))

DeletePattern ==
  /\ Unused
  /\ \E s \in PatternStrings :
       Returned("delete_element", s, <<>>, <<>>, <<>>, <<>>, delete_element(content, s))

NextParse == ParsePattern \/ QueryPattern \/ DeletePattern

SpecParse == InitParse /\ [][NextParse]_vars

(***************************************************************************)
(* The pattern grammar read off a string without the code's slicing: the   *)
(* first "[@", the first "]" after it, the body between them, the first    *)
(* "=" of the body.                                                        *)
(***************************************************************************)
Quotes == {"'", "\""}

BracketOpen(s) == find(s, <<"[", "@">>)

BracketClose(s) ==
  LET after == {i \in 1..Len(s) : i > BracketOpen(s) + 1 /\ s[i] = "]"}
  IN IF BracketOpen(s) = 0 \/ after = {} THEN 0
     ELSE CHOOSE i \in after : \A j \in after : i <= j

Body(s) == SubSeq(s, BracketOpen(s) + 2, BracketClose(s) - 1)

HasPredicate(s) == BracketClose(s) # 0 /\ contains(Body(s), "=")

PredicateName(s) == SubSeq(Body(s), 1, find(Body(s), <<"=">>) - 1)

WrittenValue(s) == SubSeq(Body(s), find(Body(s), <<"=">>) + 1, Len(Body(s)))

IsQuoted(v) == Len(v) >= 2 /\ v[1] \in Quotes /\ v[Len(v)] = v[1]

StripLayer(v) == IF IsQuoted(v) THEN SubSeq(v, 2, Len(v) - 1) ELSE v

HasQuote(v) == \E i \in 1..Len(v) : v[i] \in Quotes

(***************************************************************************)
(* C21.  parse_pattern(s): when s contains "[@" followed later by "]" and  *)
(* the body between them contains "=", the result is the text before "[@"  *)
(* with the predicate (body before the first "=", value without its        *)
(* quotes); otherwise the result is s unchanged with no predicate.  The    *)
(* values covered are those written bare or inside one pair of quotes.     *)
(***************************************************************************)
C21_ParsePattern ==
  (/\ call.op = "parse_pattern"
   /\ (HasPredicate(call.pattern) => ~HasQuote(StripLayer(WrittenValue(call.pattern)))))
  => /\ call.status = "Ok"
     /\ call.result =
          IF HasPredicate(call.pattern)
          THEN [path |-> SubSeq(call.pattern, 1, BracketOpen(call.pattern) - 1),
                filter |-> <<Attr(PredicateName(call.pattern),
                                  StripLayer(WrittenValue(call.pattern)))>>]
          ELSE [path |-> call.pattern, filter |-> <<>>]

\* the same statement for the strings whose first "]" is not ahead of "[@"
ParsePatternBracketsInOrder ==
  (/\ call.op = "parse_pattern"
   /\ (BracketOpen(call.pattern) # 0 /\ find(call.pattern, <<"]">>) # 0
         => find(call.pattern, <<"]">>) > BracketOpen(call.pattern))
   /\ (HasPredicate(call.pattern) => ~HasQuote(StripLayer(WrittenValue(call.pattern)))))
  => /\ call.status = "Ok"
     /\ call.result =
          IF HasPredicate(call.pattern)
          THEN [path |-> SubSeq(call.pattern, 1, BracketOpen(call.pattern) - 1),
                filter |-> <<Attr(PredicateName(call.pattern),
                                  StripLayer(WrittenValue(call.pattern)))>>]
          ELSE [path |-> call.pattern, filter |-> <<>>]

(***************************************************************************)
(* C22.  parse_pattern strips exactly one layer of surrounding quotes from *)
(* the predicate value: a value written with two layers of the same quote, *)
(* or with one quote kind wrapped in the other, keeps its inner layer in   *)
(* the required attribute value.                                           *)
(***************************************************************************)
C22_OneQuoteLayerStripped ==
  (/\ call.op = "parse_pattern"
   /\ call.status = "Ok"
   /\ HasPredicate(call.pattern)
   /\ IsQuoted(WrittenValue(call.pattern))
   /\ IsQuoted(StripLayer(WrittenValue(call.pattern))))
  => call.result.filter =
       <<Attr(PredicateName(call.pattern), StripLayer(WrittenValue(call.pattern)))>>

\* what the code does: every leading and trailing "'" goes, then every '"'
QuotesTrimmedByKind ==
  (/\ call.op = "parse_pattern"
   /\ call.status = "Ok"
   /\ HasPredicate(call.pattern))
  => call.result.filter =
       <<Attr(PredicateName(call.pattern),
              trim_matches(trim_matches(WrittenValue(call.pattern), "'"), "\""))>>

(***************************************************************************)
(* C28.  parse_pattern is total: for every input string, with a "]" ahead  *)
(* of the "[@" or right after it included, it returns a pair and never     *)
(* aborts, so query and the mutators never abort on a pattern string.      *)
(***************************************************************************)
C28_ParsePatternTotal ==
  call.op \in {"parse_pattern", "query", "delete_element"} => call.status # "Panic"

\* the abort happens exactly when a "]" comes ahead of the first "[@"
AbortsOnCloseAheadOfOpen ==
  call.op = "parse_pattern"
  => (call.status = "Panic"
        <=> /\ BracketOpen(call.pattern) # 0
            /\ find(call.pattern, <<"]">>) # 0
            /\ find(call.pattern, <<"]">>) < BracketOpen(call.pattern))

(***************************************************************************)
(* C23.  A document with unbalanced tags (an element opened and never      *)
(* closed before the end of input, or a close tag with no open element)    *)
(* makes get_structure, query, get_element and every mutator fail with a   *)
(* parse error: none of them returns a result, and no mutator swaps in new *)
(* content, for such a document.                                           *)
(***************************************************************************)
C23_UnbalancedFails ==
  (call.op # "none" /\ call.op # "get_content" /\ ~WellFormed(call.pre))
  => call.status = "Err" /\ content = call.pre

\* a close tag that closes nothing, or an element of another name
HasStrayClose(toks) ==
  \E k \in 1..Len(toks) :
    /\ toks[k].type = "End"
    /\ \A j \in 1..(k - 1) :
         (toks[j].type = "Start" /\ MatchEnd(toks, j) = k) => toks[j].name # toks[k].name

\* the half of C23 the reader enforces: a stray close tag fails every call
StrayCloseFails ==
  (call.op # "none" /\ call.op # "get_content" /\ HasStrayClose(call.pre))
  => call.status = "Err" /\ content = call.pre

\* the other half: an element left open at the end of input is read to the
\* end without an error
UnclosedIsRead ==
  (call.op # "none" /\ ~HasStrayClose(call.pre)) => call.status = "Ok"

(***************************************************************************)
(* write_to_file(content, path), step by step as the file system sees it.  *)
(* fs::write creates or truncates the file and then writes the bytes, a    *)
(* piece at a time; fs::rename moves the file in one step.  Either can     *)
(* fail, and the process can stop between any two steps.  run.old,         *)
(* run.failed and run.renames are the observer's notes: the target as the  *)
(* call found it, the step that failed, the renames attempted.             *)
(***************************************************************************)
MaxFileLen == 2

FileDocs == UNION {DocsOfLen(n) : n \in 0..MaxFileLen}

\* the target before the call: absent, empty, or an earlier document
OldFiles ==
  {NoFile, File(<<>>), File(<<EmptyEv(NameA, AttrsK)>>),
   File(<<StartEv(NameB, <<>>), TextEv(<<"x">>), EndEv(NameB)>>)}

\* what a run that stopped half-way left at tmp_path
StaleFiles == {NoFile, File(<<TextEv(<<"x">>)>>)}

Path == "target"

with_extension_same(path) == path

\* path.with_extension("xml.tmp"): the sibling the new content is written to
with_extension(path) == "tmp"

after_write_ignored(ok) == "rename"

\* the `?` on fs::write: the rename is reached only after a write that succeeded
after_write(ok) == IF ok THEN "rename" ELSE "return"

InitWrite ==
  /\ content \in FileDocs
  /\ call = NoCall
  /\ calls = 0
  /\ disk \in [target : OldFiles, tmp : StaleFiles]
  /\ run = NoRun

WriteToFile ==
  /\ run.pc = "none"
  /\ run' = [pc |-> "create", path |-> Path, tmp_path |-> with_extension(Path),
             content |-> content, old |-> disk[Path],
             result |-> "none", failed |-> "none", renames |-> 0]
  /\ UNCHANGED <<content, call, calls, disk>>

Create ==
  /\ run.pc = "create"
  /\ disk' = [disk EXCEPT ![run.tmp_path] = File(<<>>)]
  /\ run' = [run EXCEPT !.pc = "write"]
  /\ UNCHANGED <<content, call, calls>>

CreateFails ==
  /\ run.pc = "create"
  /\ run' = [run EXCEPT !.pc = after_write(FALSE), !.failed = "write"]
  /\ UNCHANGED <<content, call, calls, disk>>

WritePiece ==
  /\ run.pc = "write"
  /\ Len(disk[run.tmp_path].data) < Len(run.content)
  /\ disk' = [disk EXCEPT ![run.tmp_path] =
                File(Append(@.data, run.content[Len(@.data) + 1]))]
  /\ UNCHANGED <<content, call, calls, run>>

WriteFails ==
  /\ run.pc = "write"
  /\ run' = [run EXCEPT !.pc = after_write(FALSE), !.failed = "write"]
  /\ UNCHANGED <<content, call, calls, disk>>

WriteSucceeds ==
  /\ run.pc = "write"
  /\ Len(disk[run.tmp_path].data) = Len(run.content)
  /\ run' = [run EXCEPT !.pc = after_write(TRUE)]
  /\ UNCHANGED <<content, call, calls, disk>>

Rename ==
  /\ run.pc = "rename"
  /\ disk' = IF run.tmp_path = run.path THEN disk
             ELSE [disk EXCEPT ![run.path] = disk[run.tmp_path], ![run.tmp_path] = NoFile]
  /\ run' = [run EXCEPT !.pc = "done", !.result = "Ok", !.renames = @ + 1]
  /\ UNCHANGED <<content, call, calls>>

RenameFails ==
  /\ run.pc = "rename"
  /\ run' = [run EXCEPT !.pc = "done", !.result = "Err", !.renames = @ + 1,
                        !.failed = IF @ = "none" THEN "rename" ELSE @]
  /\ UNCHANGED <<content, call, calls, disk>>

\* the `?` hands the error of fs::write to the caller
ReturnErr ==
  /\ run.pc = "return"
  /\ run' = [run EXCEPT !.pc = "done", !.result = "Err"]
  /\ UNCHANGED <<content, call, calls, disk>>

Crash ==
  /\ run.pc \in {"create", "write", "rename", "return"}
  /\ run' = [run EXCEPT !.pc = "crashed"]
  /\ UNCHANGED <<content, call, calls, disk>>

NextWrite ==
  \/ WriteToFile \/ Create \/ CreateFails \/ WritePiece \/ WriteFails
  \/ WriteSucceeds \/ Rename \/ RenameFails \/ ReturnErr \/ Crash

SpecWrite == InitWrite /\ [][NextWrite]_vars

(***************************************************************************)
(* C24.  During write_to_file(content, path), at every step and under a    *)
(* crash or failure at any step, the target file holds either its complete *)
(* previous content or the complete new content; the new content is first  *)
(* written in full to a temporary sibling file and reaches the target only *)
(* through one rename.                                                     *)
(***************************************************************************)
C24_TargetOldOrNew ==
  run.pc \notin {"none"}
  => /\ disk[run.path] \in {run.old, File(run.content)}
     /\ run.renames <= 1
     /\ (disk[run.path] # run.old => run.renames = 1 /\ run.result = "Ok")

\* the run stopped half-way through writing the sibling: the target is as before
C24_Witness ==
  /\ run.pc = "crashed"
  /\ run.old.exists
  /\ disk[run.path] = run.old
  /\ disk[run.tmp_path].exists
  /\ disk[run.tmp_path].data # <<>>
  /\ Len(disk[run.tmp_path].data) < Len(run.content)

\* the step that changes the target is the rename of the fully written sibling
TargetChangesByRename ==
  [][disk'[Path] # disk[Path]
       => /\ run.pc = "rename"
          /\ disk[run.tmp_path] = File(run.content)
          /\ disk'[Path] = File(run.content)]_vars

(***************************************************************************)
(* C25.  If writing the temporary file or the rename fails, write_to_file  *)
(* returns an I/O error, the target file's content is unchanged, and the   *)
(* rename is not attempted after a failed write.                           *)
(***************************************************************************)
C25_FailureLeavesTarget ==
  (run.pc = "done" /\ run.failed # "none")
  => /\ run.result = "Err"
     /\ disk[run.path] = run.old
     /\ (run.failed = "write" => run.renames = 0)

\* the write failed after a piece of the new content had reached the sibling
C25_Witness ==
  /\ run.pc = "done"
  /\ run.failed = "write"
  /\ run.old.exists
  /\ disk[run.tmp_path].data # <<>>
  /\ disk[run.tmp_path].data # run.content

\* a call that returns Ok has put the whole new content at the target
OkMeansWritten ==
  (run.pc = "done" /\ run.result = "Ok")
  => disk[run.path] = File(run.content) /\ ~disk[run.tmp_path].exists

(***************************************************************************)
(* C27.  Matching is consistent between reading and editing: for every     *)
(* well-formed document and pattern, each mutator returns true exactly     *)
(* when query(pattern) is non-empty, and the element it edits is the first *)
(* element of query(pattern); this includes update_text when the only or   *)
(* first element satisfying the pattern is self-closing or has a child     *)
(* element before its text.                                                *)
(***************************************************************************)
\* token t lies inside the element at f and inside no child element of it
DirectChild(toks, f, t) ==
  /\ f < t
  /\ t <= CloseOf(toks, f)
  /\ \A j \in (f + 1)..(t - 1) : ~(IsAncestor(toks, j, t) /\ MatchEnd(toks, j) # 0)

\* the written events are the input with the element at f edited by the call
EditsElement(pre, out, f) ==
  LET c == CloseOf(pre, f)
      new == <<TextEv(call.text[1])>>
      block == InsertedBlock(call.name, call.attributes, call.text)
  IN CASE call.op = "set_attribute" ->
            /\ Len(out) = Len(pre)
            /\ \A i \in 1..Len(pre) : i # f => out[i] = pre[i]
            /\ out[f].type = pre[f].type /\ out[f].name = pre[f].name
       [] call.op = "delete_element" -> out = Splice(pre, f, c, <<>>)
       [] call.op = "update_text" ->
            IF pre[f].type = "Empty"
            THEN out = Splice(pre, f, f, <<StartEv(pre[f].name, pre[f].attrs)>> \o new
                                           \o <<EndEv(pre[f].name)>>)
            ELSE \E t \in (f + 1)..c :
                   /\ DirectChild(pre, f, t)
                   /\ \/ pre[t].type = "Text" /\ out = Splice(pre, t, t, new)
                      \/ out = Splice(pre, t, t - 1, new)
       [] call.op = "insert_element" ->
            IF pre[f].type = "Empty"
            THEN out = Splice(pre, f, f, <<StartEv(pre[f].name, pre[f].attrs)>> \o block
                                           \o <<EndEv(pre[f].name)>>)
            ELSE out = Splice(pre, c, c - 1, block)

ReadEditConsistent(ops) ==
  (call.op \in ops /\ call.status = "Ok" /\ WellFormed(call.pre))
  => LET q == query(call.pre, call.pattern)
         f == FirstSelected(call.pre, call.pattern)
     IN /\ q.status = "Ok"
        /\ call.ret <=> q.value # <<>>
        /\ call.ret => /\ f # 0
                       /\ q.value[1].path = ElementPath(call.pre, f)
                       /\ q.value[1].name = call.pre[f].name
                       /\ EditsElement(call.pre, call.out, f)

C27_ReadEditConsistent == ReadEditConsistent(Mutators)

\* set_attribute and delete_element do edit the first element query returns
SetAndDeleteFollowQuery == ReadEditConsistent({"set_attribute", "delete_element"})

(***************************************************************************)
(* The modify run (run_modify): the XML file is loaded into the Document,  *)
(* the conversation hands tool calls to ModifyToolHandler::execute one at  *)
(* a time, and the Document is written back when the conversation returned *)
(* a non-empty list of modifications and the run is not a dry run.         *)
(* An argument of a tool call is <<>> when the JSON object lacks it and    *)
(* <<v>> when it holds v.                                                  *)
(***************************************************************************)
MaxToolCalls == 3

\* the file as from_file finds it: well-formed documents with the element a
\* self-closing, empty, with text, nested and below b, a document whose only
\* element is ba, one with a stray close tag and one with an element left open
SessionDocs ==
  {<<>>,
   <<EmptyEv(NameA, AttrsK)>>,
   <<StartEv(NameA, AttrsKJ), EndEv(NameA)>>,
   <<StartEv(NameA, AttrsKJ), TextEv(<<"x">>), EndEv(NameA)>>,
   <<StartEv(NameB, <<>>), EmptyEv(NameA, AttrsK), EndEv(NameB)>>,
   <<StartEv(NameA, AttrsKJ), EmptyEv(NameA, AttrsK), EndEv(NameA)>>,
   <<StartEv(NameB, <<>>), TextEv(<<"x">>), EndEv(NameB), EmptyEv(NameA, AttrsK)>>,
   <<EmptyEv(NameBA, <<>>)>>,
   <<StartEv(NameB, <<>>), EmptyEv(NameBA, <<>>), TextEv(<<"x">>), EndEv(NameB)>>,
   <<CommentEv, StartEv(NameA, AttrsKJ), StartEv(NameB, <<>>), EndEv(NameB), EndEv(NameA)>>,
   <<EmptyEv(NameA, AttrsK), EndEv(NameA)>>,
   <<StartEv(NameB, <<>>), EmptyEv(NameA, AttrsK)>>}

ToolCall(tool, operation, path, attr_name, value, element_name, attributes, text) ==
  [tool |-> tool, operation |-> operation, path |-> path, attr_name |-> attr_name,
   value |-> value, element_name |-> element_name, attributes |-> attributes,
   text |-> text]

ToolCalls ==
  {ToolCall("modify_xml", <<"update_text">>, <<NameA>>, <<>>, <<<<"y">>>>, <<>>, <<>>, <<>>),
   ToolCall("modify_xml", <<"set_attribute">>, <<NameA>>, <<<<"k">>>>, <<<<"9">>>>, <<>>, <<>>, <<>>),
   ToolCall("modify_xml", <<"delete">>, <<NameA>>, <<>>, <<>>, <<>>, <<>>, <<>>),
   ToolCall("modify_xml", <<"insert">>, <<NameA>>, <<>>, <<>>, <<NameC>>,
            <<Attr(<<"p">>, <<"1">>)>>, <<>>),
   ToolCall("modify_xml", <<"insert">>, <<NameB>>, <<>>, <<>>, <<NameC>>, <<>>, <<<<"y">>>>),
   ToolCall("modify_xml", <<"rename">>, <<NameA>>, <<>>, <<>>, <<>>, <<>>, <<>>),
   ToolCall("get_xml_structure", <<>>, <<>>, <<>>, <<>>, <<>>, <<>>, <<>>),
   ToolCall("finish", <<>>, <<>>, <<>>, <<>>, <<>>, <<>>, <<>>),
   ToolCall("drop_xml", <<>>, <<>>, <<>>, <<>>, <<>>, <<>>, <<>>)}

\* ModifyToolHandler::new
NewHandler == [modifications |-> <<>>, finished |-> FALSE]

\* no mutator was reached by the tool call
NoMutation(xml) == [status |-> "Ok", ret |-> FALSE, content |-> xml, out |-> <<>>, op |-> "none"]

\* what execute leaves: the Result it returns (status, reply), the handler's
\* fields, the Document, and the mutator call it made (mutation)
Executed(status, reply, modifications, finished, mutation) ==
  [status |-> status, reply |-> reply, modifications |-> modifications,
   finished |-> finished, mutation |-> mutation]

ToolError(h, xml, message) ==
  Executed("Err", <<message>>, h.modifications, h.finished, NoMutation(xml))

\* if modified { self.modifications.push(entry) }
record(modifications, modified, entry) ==
  IF modified THEN Append(modifications, entry) ELSE modifications

\* the tail shared by handle_update_text, handle_set_attribute,
\* handle_delete and handle_insert: `?` on the mutator's Result, then the push
Modified(h, op, r, entry, done, not_found) ==
  LET mutation == [status |-> r.status, ret |-> r.ret, content |-> r.content,
                   out |-> r.out, op |-> op]
  IN IF r.status # "Ok"
     THEN Executed(r.status, <<"MarkupParseError">>, h.modifications, h.finished, mutation)
     ELSE Executed("Ok", IF r.ret THEN <<done>> ELSE <<not_found>>,
                   record(h.modifications, r.ret, entry), h.finished, mutation)

handle_update_text(h, xml, args, path) ==
  IF args.value = <<>> THEN ToolError(h, xml, "Missing value for update_text")
  ELSE Modified(h, "update_text", update_text(xml, path, args.value[1]),
                <<"update_text: ">> \o path \o <<" = '">> \o args.value[1] \o <<"'">>,
                "Text updated successfully", "No matching element found")

handle_set_attribute(h, xml, args, path) ==
  IF args.attr_name = <<>> THEN ToolError(h, xml, "Missing attr_name for set_attribute")
  ELSE IF args.value = <<>> THEN ToolError(h, xml, "Missing value for set_attribute")
  ELSE Modified(h, "set_attribute",
                set_attribute(xml, path, args.attr_name[1], args.value[1]),
                <<"set_attribute: ">> \o path \o <<" @">> \o args.attr_name[1]
                  \o <<" = '">> \o args.value[1] \o <<"'">>,
                "Attribute set successfully", "No matching element found")

handle_delete(h, xml, path) ==
  Modified(h, "delete_element", delete_element(xml, path), <<"delete: ">> \o path,
           "Element deleted successfully", "No matching element found")

handle_insert(h, xml, args, path) ==
  IF args.element_name = <<>> THEN ToolError(h, xml, "Missing element_name for insert")
  ELSE Modified(h, "insert_element",
                insert_element(xml, path, args.element_name[1], args.attributes, args.text),
                <<"insert: ">> \o path \o <<" -> <">> \o args.element_name[1] \o <<">">>,
                "Element inserted successfully", "No matching parent element found")

handle_modify_xml(h, xml, args) ==
  IF args.operation = <<>> THEN ToolError(h, xml, "Missing operation parameter")
  ELSE IF args.path = <<>> THEN ToolError(h, xml, "Missing path parameter")
  ELSE LET operation == args.operation[1]
           path == args.path[1]
       IN CASE operation = "update_text" -> handle_update_text(h, xml, args, path)
            [] operation = "set_attribute" -> handle_set_attribute(h, xml, args, path)
            [] operation = "delete" -> handle_delete(h, xml, path)
            [] operation = "insert" -> handle_insert(h, xml, args, path)
            [] OTHER -> ToolError(h, xml, "Unknown operation")

\* the listing shows at most MAX_XML_ELEMENTS records and counts the rest
handle_get_xml_structure(h, xml) ==
  LET elements == get_structure(xml)
  IN IF elements.status # "Ok" THEN ToolError(h, xml, "MarkupParseError")
     ELSE Executed("Ok",
                   <<"XML Structure:", ToString(Len(take(elements.value, MAX_XML_ELEMENTS)))>>
                     \o (IF Len(elements.value) > MAX_XML_ELEMENTS
                         THEN <<"... and ", ToString(Len(elements.value) - MAX_XML_ELEMENTS),
                                " more elements">>
                         ELSE <<>>),
                   h.modifications, h.finished, NoMutation(xml))

handle_finish(h, xml) ==
  Executed("Ok",
           <<"Finished: ", "Modifications complete", "\nTotal modifications: ",
             ToString(Len(h.modifications))>>,
           h.modifications, TRUE, NoMutation(xml))

execute(h, xml, tool_call) ==
  CASE tool_call.tool = "get_xml_structure" -> handle_get_xml_structure(h, xml)
    [] tool_call.tool = "modify_xml" -> handle_modify_xml(h, xml, tool_call)
    [] tool_call.tool = "finish" -> handle_finish(h, xml)
    [] OTHER -> ToolError(h, xml, "Unknown tool")

NoTool == ToolCall("none", <<>>, <<>>, <<>>, <<>>, <<>>, <<>>, <<>>)

\* after XmlModifier::from_file(xml_path): the Document holds the file
InitModify ==
  /\ content \in SessionDocs
  /\ call = NoCall
  /\ calls = 0
  /\ disk = [target |-> File(content), tmp |-> NoFile]
  /\ \E dry_run \in BOOLEAN :
       run = [pc |-> "loaded", handler |-> NewHandler, turns |-> 0,
              tool |-> NoTool, status |-> "Ok", reply |-> <<>>, modified |-> FALSE,
              returned |-> "none", modifications |-> <<>>, dry_run |-> dry_run,
              original |-> content, exit |-> "none", wrote |-> FALSE]

\* shutdown.load(...) is true before the conversation starts
ShutdownRequested ==
  /\ run.pc = "loaded"
  /\ run' = [run EXCEPT !.pc = "done", !.exit = "Ok"]
  /\ UNCHANGED <<content, call, calls, disk>>

StartConversation ==
  /\ run.pc = "loaded"
  /\ run' = [run EXCEPT !.pc = "conversation"]
  /\ UNCHANGED <<content, call, calls, disk>>

\* the `?` on handler.execute(tool_call) in the conversation loop
after_execute(status) == IF status = "Ok" THEN "conversation" ELSE "returned"

\* one tool call of the conversation, handed to ModifyToolHandler::execute
ExecuteTool ==
  /\ run.pc = "conversation"
  /\ run.turns < MaxToolCalls
  /\ \E tool_call \in ToolCalls :
       LET x == execute(run.handler, content, tool_call)
           m == x.mutation
       IN /\ content' = m.content
          /\ call' = IF m.op = "none" THEN call
                     ELSE [op |-> m.op, pattern |-> tool_call.path[1],
                           name |-> IF m.op = "insert_element" THEN tool_call.element_name[1]
                                    ELSE IF m.op = "set_attribute" THEN tool_call.attr_name[1]
                                    ELSE <<>>,
                           value |-> IF m.op = "set_attribute" THEN tool_call.value[1] ELSE <<>>,
                           attributes |-> tool_call.attributes,
                           text |-> IF m.op = "update_text" THEN tool_call.value
                                    ELSE tool_call.text,
                           pre |-> content, status |-> m.status, ret |-> m.ret,
                           out |-> m.out, result |-> <<>>]
          /\ calls' = IF m.op = "none" THEN calls ELSE counted(calls)
          /\ run' = [run EXCEPT !.pc = after_execute(x.status),
                                !.handler = [modifications |-> x.modifications,
                                             finished |-> x.finished],
                                !.turns = @ + 1,
                                !.tool = tool_call,
                                !.status = x.status,
                                !.reply = x.reply,
                                !.modified = m.op # "none" /\ m.ret,
                                !.returned = IF x.status = "Ok" THEN @ ELSE "Err"]
  /\ UNCHANGED disk

\* the conversation is over (finish was called, the model answered without
\* a tool call, or the turns ran out): the handler's list is returned
ConversationReturns ==
  /\ run.pc = "conversation"
  /\ run' = [run EXCEPT !.pc = "returned", !.returned = "Ok",
                        !.modifications = run.handler.modifications]
  /\ UNCHANGED <<content, call, calls, disk>>

\* a request to the model failed
ConversationFails ==
  /\ run.pc = "conversation"
  /\ run' = [run EXCEPT !.pc = "returned", !.returned = "Err"]
  /\ UNCHANGED <<content, call, calls, disk>>

should_write_dry(returned, modifications, dry_run) ==
  returned = "Ok" /\ modifications # <<>>

\* run_modify after the conversation: `?`, is_empty(), dry_run
should_write(returned, modifications, dry_run) ==
  returned = "Ok" /\ modifications # <<>> /\ ~dry_run

ReturnWithoutWrite ==
  /\ run.pc = "returned"
  /\ ~should_write(run.returned, run.modifications, run.dry_run)
  /\ run' = [run EXCEPT !.pc = "done", !.exit = run.returned]
  /\ UNCHANGED <<content, call, calls, disk>>

\* write_to_file(&xml_modifier.get_content(), xml_path) succeeds
WriteBack ==
  /\ run.pc = "returned"
  /\ should_write(run.returned, run.modifications, run.dry_run)
  /\ disk' = [disk EXCEPT !.target = File(get_content(content).value)]
  /\ run' = [run EXCEPT !.pc = "done", !.exit = "Ok", !.wrote = TRUE]
  /\ UNCHANGED <<content, call, calls>>

\* write_to_file fails: the target is as it was (C25)
WriteBackFails ==
  /\ run.pc = "returned"
  /\ should_write(run.returned, run.modifications, run.dry_run)
  /\ run' = [run EXCEPT !.pc = "done", !.exit = "Err"]
  /\ UNCHANGED <<content, call, calls, disk>>

NextModify ==
  \/ ShutdownRequested \/ StartConversation \/ ExecuteTool \/ ConversationReturns
  \/ ConversationFails \/ ReturnWithoutWrite \/ WriteBack \/ WriteBackFails

SpecModify == InitModify /\ [][NextModify]_vars

OneCallKeepsWellFormed ==
  (call.op \in Mutators /\ WellFormed(call.pre))
  => WellFormed(content) /\ get_structure(content).status = "Ok"

(***************************************************************************)
(* C29.  In the modify run, the XML file on disk is written only when the  *)
(* conversation ended without error, at least one modification was         *)
(* recorded and dry_run is false; in every other case (error, no           *)
(* modification, dry run) the file on disk keeps its original content even *)
(* though the in-memory Document may have changed.                         *)
(***************************************************************************)
C29_WrittenOnlyAfterSuccess ==
  run.pc \in {"loaded", "conversation", "returned", "done"}
  => /\ (run.wrote \/ disk.target # File(run.original))
          => /\ run.returned = "Ok"
             /\ run.handler.modifications # <<>>
             /\ ~run.dry_run
             /\ disk.target = File(content)
     /\ (run.pc = "done" /\ (run.returned # "Ok" \/ run.handler.modifications = <<>>
                               \/ run.dry_run))
          => disk.target = File(run.original)

\* the conversation failed after an edit: the Document changed, the file did not
C29_Witness ==
  /\ run.pc = "done"
  /\ run.returned = "Err"
  /\ ~run.dry_run
  /\ run.handler.modifications # <<>>
  /\ content # run.original
  /\ disk.target = File(run.original)

\* a dry run with modifications leaves the file as it was
DryRunKeepsFile ==
  (run.pc = "done" /\ run.dry_run /\ run.handler.modifications # <<>>)
  => disk.target = File(run.original) /\ ~run.wrote

(***************************************************************************)
(* C30.  After any sequence of tool calls on a ModifyToolHandler, the      *)
(* modifications list holds exactly one entry per modify_xml call whose    *)
(* mutator returned true, in call order; a modify_xml call whose pattern   *)
(* matches nothing returns a normal "not found" result (not an error) and  *)
(* leaves both the list and the Document unchanged; and the count reported *)
(* by finish equals the length of that list.  Stated for each tool call on *)
(* the list, the Document and the reply it leaves; the document of the     *)
(* second part is one the reader accepts.                                  *)
(***************************************************************************)
NotFoundReplies == {<<"No matching element found">>, <<"No matching parent element found">>}

KnownOperations == {"update_text", "set_attribute", "delete", "insert"}

C30_ModificationsFollowCalls ==
  [][(run.pc = "conversation" /\ run'.turns = run.turns + 1)
       => LET t == run'.tool
              before == run.handler.modifications
              after == run'.handler.modifications
          IN /\ IF t.tool = "modify_xml" /\ run'.modified
                THEN Len(after) = Len(before) + 1 /\ SubSeq(after, 1, Len(before)) = before
                ELSE after = before
             /\ (/\ t.tool = "modify_xml"
                 /\ t.operation # <<>>
                 /\ t.operation[1] \in KnownOperations
                 /\ get_structure(content).status = "Ok"
                 /\ FirstSat(content, t.path[1]) = 0)
                => /\ run'.status = "Ok"
                   /\ run'.reply \in NotFoundReplies
                   /\ after = before
                   /\ content' = content
             /\ t.tool = "finish" => run'.reply[4] = ToString(Len(after))]_vars

\* the handler's own part of C30: the list grows by one entry exactly when the
\* mutator returned true, a mutator that returned false gives the "not found"
\* reply with list and Document as they were, and finish reports the length
HandlerFollowsMutator ==
  [][(run.pc = "conversation" /\ run'.turns = run.turns + 1)
       => LET t == run'.tool
              before == run.handler.modifications
              after == run'.handler.modifications
          IN /\ IF t.tool = "modify_xml" /\ run'.modified
                THEN Len(after) = Len(before) + 1 /\ SubSeq(after, 1, Len(before)) = before
                ELSE after = before
             /\ (/\ t.tool = "modify_xml"
                 /\ t.operation # <<>>
                 /\ t.operation[1] \in KnownOperations
                 /\ run'.status = "Ok"
                 /\ ~run'.modified)
                => /\ run'.reply \in NotFoundReplies
                   /\ after = before
                   /\ content' = content
             /\ t.tool = "finish" => run'.reply[4] = ToString(Len(after))]_vars

=============================================================================
